---- MODULE Spec2Model ----
(***************************************************************************)
(* The in-process IP-to-workload index of costinm/mk8s: K8SData            *)
(* (src/ip/ipdata.go), the informer event handler that keeps two sync.Map  *)
(* indexes (IPToSrc, PodInfo) and three atomic counters.                   *)
(*                                                                         *)
(* Every handler is a straight-line program of atomic operations on the    *)
(* shared struct (one sync.Map method or one atomic.Int32.Add each).       *)
(* OnAdd, OnUpdate and OnDelete give that program for an event; Spec runs  *)
(* a whole handler per step (events delivered one after another), and      *)
(* ConcSpec runs the same programs one atomic operation at a time on       *)
(* several goroutines.                                                     *)
(***************************************************************************)
EXTENDS Integers, Sequences, FiniteSets, TLC

\* Bounds of the model.
MaxCalls == 3       \* handler calls delivered one after another (Spec)
NGoroutines == 2    \* handler calls that may overlap in time (ConcSpec)

\* ------------------------------------------------------------------ objects

Names == {"a", "b", "c"}
Namespaces == {"default"}
IPs == {"", "10.0.0.1", "10.0.0.2"}

\* An object as the informer hands it over: its dynamic type (kind) and the
\* fields the handlers read.  Endpoints is a sequence of endpoints, each the
\* sequence of its addresses.
Obj(kind, name, ns, ip, eps) ==
    [kind |-> kind, Name |-> name, Namespace |-> ns, PodIP |-> ip, Endpoints |-> eps]

PodObjs == {Obj("Pod", n, ns, ip, <<>>) : n \in Names, ns \in Namespaces, ip \in IPs}
NodeObj == Obj("Node", "node-1", "", "", <<>>)
SliceObjs ==
    { Obj("EndpointSlice", "example-abc", "default", "", << <<"10.1.2.3", "10.1.2.4">> >>),
      Obj("EndpointSlice", "example-def", "default", "", << <<"10.1.2.3">>, <<"10.1.2.4">> >>) }
GatewayObj == Obj("Gateway", "gw", "default", "", <<>>)
\* cache.DeletedFinalStateUnknown: what OnDelete gets when the final state is unknown.
TombstoneObj == Obj("DeletedFinalStateUnknown", "a", "default", "", <<>>)
NilObj == Obj("nil", "", "", "", <<>>)

Objects == PodObjs \cup SliceObjs \cup {NodeObj, GatewayObj, TombstoneObj, NilObj}

IsPod(o) == o.kind = "Pod"

\* Faulty variant: the key leaves the name out.
PodKeyNsOnly(v) == v.Namespace

\* v.Name+"."+v.Namespace
PodKey(v) == v.Name \o "." \o v.Namespace

\* ----------------------------------------------------------------- sync.Map
\* A map is the set of its entries.  Store replaces the entry of the key,
\* Delete removes it, Load finds it.

Entry(key, value) == [key |-> key, value |-> value]

\* Faulty variant: Store adds the entry and keeps the one the key had.
StoreKeepOld(m, key, value) == m \cup {Entry(key, value)}
Store(m, key, value) == {e \in m : e.key # key} \cup {Entry(key, value)}

Delete(m, key) == {e \in m : e.key # key}

Load(m, key) ==
    IF \E e \in m : e.key = key
    THEN [ok |-> TRUE, value |-> (CHOOSE e \in m : e.key = key).value]
    ELSE [ok |-> FALSE, value |-> NilObj]

Found(v) == [ok |-> TRUE, value |-> v]
NotFound == [ok |-> FALSE, value |-> NilObj]

Keys(m) == {e.key : e \in m}

\* atomic.Int32.Add: two's complement, 32 bits wide.
MaxInt32 == 2147483647
MinInt32 == (-MaxInt32) - 1
\* Faulty variant: a counter that is kept from going below zero.
AddInt32NonNegative(x, delta) == IF x + delta < 0 THEN 0 ELSE x + delta

AddInt32(x, delta) ==
    IF delta > 0 /\ x > MaxInt32 - delta THEN MinInt32 + ((x - (MaxInt32 - delta)) - 1)
    ELSE IF delta < 0 /\ x < MinInt32 - delta THEN MaxInt32 - (((MinInt32 - delta) - x) - 1)
    ELSE x + delta

\* ------------------------------------------------------------------ K8SData

NewK8SData ==
    [IPToSrc |-> {}, PodInfo |-> {}, synced |-> FALSE,
     Pods |-> 0, Slices |-> 0, SliceIPs |-> 0]

\* One atomic operation of a handler on the shared struct.
Op(m, key, value, delta) == [m |-> m, key |-> key, value |-> value, delta |-> delta]

PodInfoStore(key, v) == Op("PodInfo.Store", key, v, 0)
\* Used by no handler; the OnDelete variant below performs it.
PodInfoDelete(key)   == Op("PodInfo.Delete", key, NilObj, 0)
IPToSrcStore(key, v) == Op("IPToSrc.Store", key, v, 0)
IPToSrcDelete(key)   == Op("IPToSrc.Delete", key, NilObj, 0)
PodsAdd(d)           == Op("Pods.Add", "", NilObj, d)
SlicesAdd(d)         == Op("Slices.Add", "", NilObj, d)
SliceIPsAdd(d)       == Op("SliceIPs.Add", "", NilObj, d)
Panic                == Op("panic", "", NilObj, 0)

Apply(op, s) ==
    CASE op.m = "PodInfo.Store"  -> [s EXCEPT !.PodInfo = Store(@, op.key, op.value)]
      [] op.m = "PodInfo.Delete" -> [s EXCEPT !.PodInfo = Delete(@, op.key)]
      [] op.m = "IPToSrc.Store"  -> [s EXCEPT !.IPToSrc = Store(@, op.key, op.value)]
      [] op.m = "IPToSrc.Delete" -> [s EXCEPT !.IPToSrc = Delete(@, op.key)]
      [] op.m = "Pods.Add"       -> [s EXCEPT !.Pods = AddInt32(@, op.delta)]
      [] op.m = "Slices.Add"     -> [s EXCEPT !.Slices = AddInt32(@, op.delta)]
      [] op.m = "SliceIPs.Add"   -> [s EXCEPT !.SliceIPs = AddInt32(@, op.delta)]
      [] OTHER                   -> s

\* ----------------------------------------------------------------- handlers
\* The program of each handler: the atomic operations it performs, in order.
\* slog calls touch no state of the index and are left out.

\* Faulty variant: OnAdd without the IPToSrc store.
OnAddNoAddressIndex(obj, isInInitialList) ==
    CASE obj.kind = "EndpointSlice" ->
           << SlicesAdd(1), SliceIPsAdd(Len(obj.Endpoints)) >>
      [] obj.kind = "Pod" -> << PodInfoStore(PodKey(obj), obj), PodsAdd(1) >>
      [] OTHER -> << >>

\* Faulty variant: OnAdd that does not count pods and slices.
OnAddNoCount(obj, isInInitialList) ==
    CASE obj.kind = "EndpointSlice" -> << SliceIPsAdd(Len(obj.Endpoints)) >>
      [] obj.kind = "Pod" ->
           << PodInfoStore(PodKey(obj), obj) >>
           \o (IF obj.PodIP # "" THEN << IPToSrcStore(obj.PodIP, obj) >> ELSE << >>)
      [] OTHER -> << >>

\* Faulty variant: the address index is written before the name index.
OnAddAddressFirst(obj, isInInitialList) ==
    CASE obj.kind = "EndpointSlice" ->
           << SlicesAdd(1), SliceIPsAdd(Len(obj.Endpoints)) >>
      [] obj.kind = "Pod" ->
           (IF obj.PodIP # "" THEN << IPToSrcStore(obj.PodIP, obj) >> ELSE << >>)
           \o << PodInfoStore(PodKey(obj), obj), PodsAdd(1) >>
      [] OTHER -> << >>

\* Faulty variant: the address index is filled only after the initial list.
OnAddAfterInitialList(obj, isInInitialList) ==
    CASE obj.kind = "EndpointSlice" ->
           << SlicesAdd(1), SliceIPsAdd(Len(obj.Endpoints)) >>
      [] obj.kind = "Pod" ->
           << PodInfoStore(PodKey(obj), obj), PodsAdd(1) >>
           \o (IF obj.PodIP # "" /\ ~isInInitialList
               THEN << IPToSrcStore(obj.PodIP, obj) >> ELSE << >>)
      [] OTHER -> << >>

OnAdd(obj, isInInitialList) ==
    CASE obj.kind = "EndpointSlice" ->
           << SlicesAdd(1), SliceIPsAdd(Len(obj.Endpoints)) >>
      [] obj.kind = "Pod" ->
           << PodInfoStore(PodKey(obj), obj), PodsAdd(1) >>
           \o (IF obj.PodIP # "" THEN << IPToSrcStore(obj.PodIP, obj) >> ELSE << >>)
      [] OTHER -> << >>

\* Faulty variant: OnUpdate stores the new pod under the old address.
OnUpdateKeyedByOld(old, new) ==
    CASE new.kind = "Pod" ->
           IF IsPod(old) THEN << IPToSrcStore(old.PodIP, new) >> ELSE << Panic >>
      [] OTHER -> << >>

\* Variant: OnUpdate drops the entry of the old address before storing the new.
OnUpdateRekeys(old, new) ==
    CASE new.kind = "Pod" ->
           IF IsPod(old)
           THEN << IPToSrcDelete(old.PodIP), IPToSrcStore(new.PodIP, new) >>
           ELSE << Panic >>
      [] OTHER -> << >>

\* old.(*core_v1.Pod) is a single-value type assertion: it panics unless old
\* holds a *core_v1.Pod.
OnUpdate(old, new) ==
    CASE new.kind = "Pod" ->
           IF IsPod(old)
           THEN << IPToSrcStore(new.PodIP, new) >>
           ELSE << Panic >>
      [] OTHER -> << >>

\* Variant: OnDelete also removes the pod from PodInfo.
OnDeleteRemovesName(obj) ==
    CASE obj.kind = "Pod" ->
           << PodsAdd(-1), PodInfoDelete(PodKey(obj)) >>
           \o (IF obj.PodIP # "" THEN << IPToSrcDelete(obj.PodIP) >> ELSE << >>)
      [] OTHER -> << >>

\* Faulty variant: OnDelete without the IPToSrc delete.
OnDeleteKeepsAddress(obj) ==
    CASE obj.kind = "Pod" -> << PodsAdd(-1) >>
      [] OTHER -> << >>

\* Faulty variant: a DeletedFinalStateUnknown is counted as the deletion of a pod.
OnDeleteUnwrapsTombstone(obj) ==
    CASE obj.kind \in {"Pod", "DeletedFinalStateUnknown"} ->
           << PodsAdd(-1) >>
           \o (IF obj.PodIP # "" THEN << IPToSrcDelete(obj.PodIP) >> ELSE << >>)
      [] OTHER -> << >>

OnDelete(obj) ==
    CASE obj.kind = "Pod" ->
           << PodsAdd(-1) >>
           \o (IF obj.PodIP # "" THEN << IPToSrcDelete(obj.PodIP) >> ELSE << >>)
      [] OTHER -> << >>

\* A call of a handler, and its program.
Call(fn, obj, old, flag) == [fn |-> fn, obj |-> obj, old |-> old, flag |-> flag]
NoCall == Call("none", NilObj, NilObj, FALSE)

Program(c) ==
    CASE c.fn = "OnAdd"    -> OnAdd(c.obj, c.flag)
      [] c.fn = "OnUpdate" -> OnUpdate(c.old, c.obj)
      [] c.fn = "OnDelete" -> OnDelete(c.obj)
      [] OTHER             -> << >>

\* The operations of a program that run: all of them, or those before a panic.
PanicAt(prog) ==
    IF \E i \in 1..Len(prog) : prog[i].m = "panic"
    THEN CHOOSE i \in 1..Len(prog) :
            prog[i].m = "panic" /\ \A j \in 1..(i - 1) : prog[j].m # "panic"
    ELSE 0
Panics(prog) == PanicAt(prog) # 0
Executed(prog) == IF Panics(prog) THEN SubSeq(prog, 1, PanicAt(prog) - 1) ELSE prog

RECURSIVE RunFrom(_, _, _)
RunFrom(prog, i, s) ==
    IF i > Len(prog) THEN s ELSE RunFrom(prog, i + 1, Apply(prog[i], s))

\* The struct after the whole handler ran on it.
Run(c, s) == RunFrom(Executed(Program(c)), 1, s)

\* The old objects OnUpdate is given with a new one: a snapshot of the same
\* pod, or nothing usable (nil, a tombstone).
OldFor(new) ==
    IF IsPod(new)
    THEN {o \in PodObjs : PodKey(o) = PodKey(new)} \cup {NilObj, TombstoneObj}
    ELSE {new}

\* ---------------------------------------------------------------- variables

VARIABLES
    k,          \* the K8SData struct
    panicked,   \* a handler panicked: the process is gone
    ncalls,     \* handler calls delivered so far (Spec)
    last,       \* the call delivered last (Spec)
    twice,      \* the call delivered last repeats the one before it (Spec)
    replica,    \* the source's store: key -> last delivered snapshot of a live pod
    inOrder,    \* every call so far followed the source's order (Add, Updates, Delete)
    g,          \* the goroutines of ConcSpec: call, operations done, status
    writer,     \* ConcSpec: per address, the goroutine whose IPToSrc operation came last
    watcher,    \* the K8SIPWatcher: which struct its K8SData points to, informers started
    kd,         \* the K8SData handed to Start
    inf,        \* HasSynced of the pod informer and of the node informer
    stopCh,     \* the channel handed to WaitForInit: "open" or "closed"
    wait,       \* WaitForInit: where its goroutine is, and what it returned last
    seen,       \* WaitSpec: what has been the case at some instant so far
    kr,         \* the K8S cluster set: ByName and Default
    os,         \* what K8S.init finds: kubeconfig file and in-cluster files
    run,        \* the call in progress on the cluster set, and what it returned
    cluster,    \* a K8SCluster: Name and the cached project, location, name
    csrs,       \* the CertificateSigningRequests in the API server
    issued      \* the requests K8SSigner signed, as they were when it signed

waitVars == <<watcher, kd, inf, stopCh, wait, seen>>
setVars == <<kr, os, run, cluster, csrs, issued>>
indexVars == <<k, panicked, ncalls, last, twice, replica, inOrder, g, writer, waitVars>>
vars == <<indexVars, setVars>>

Goroutines == 1..NGoroutines

IdleG == [call |-> NoCall, pc |-> 0, st |-> "idle"]

IndexInit ==
    /\ k = NewK8SData
    /\ panicked = FALSE
    /\ ncalls = 0
    /\ last = NoCall
    /\ twice = FALSE
    /\ replica = {}
    /\ inOrder = TRUE
    /\ g = [i \in Goroutines |-> IdleG]
    /\ writer = [ip \in IPs |-> 0]
    /\ watcher = [K8SData |-> "k", started |-> FALSE]
    /\ kd = NewK8SData
    /\ inf = [pod |-> FALSE, node |-> FALSE]
    /\ stopCh = "open"
    /\ wait = [pc |-> "idle", res |-> "none"]
    /\ seen = [syncedOpen |-> FALSE, stopFirst |-> FALSE]

\* The cluster set, the K8SCluster and the signer before anything ran.
SetInit ==
    /\ kr = [ByName |-> {}, Default |-> "nil"]
    /\ os = "none"
    /\ run = [pc |-> "idle"]
    /\ cluster = "none"
    /\ csrs = {}
    /\ issued = {}

Init == IndexInit /\ SetInit

\* Whether call c follows the order the informer delivers a pod's events in,
\* given the source's store r.
Ordered(c, r) ==
    CASE c.fn = "OnAdd" /\ IsPod(c.obj)    -> ~Load(r, PodKey(c.obj)).ok
      [] c.fn = "OnUpdate" /\ IsPod(c.obj) -> Load(r, PodKey(c.obj)) = Found(c.old)
      [] c.fn = "OnDelete" /\ IsPod(c.obj) -> Load(r, PodKey(c.obj)) = Found(c.obj)
      [] OTHER -> TRUE

Replicate(c, r) ==
    CASE c.fn \in {"OnAdd", "OnUpdate"} /\ IsPod(c.obj) -> Store(r, PodKey(c.obj), c.obj)
      [] c.fn = "OnDelete" /\ IsPod(c.obj)              -> Delete(r, PodKey(c.obj))
      [] OTHER -> r

\* ------------------------------------------------- Spec: one call at a time

Deliver(c) ==
    /\ k' = Run(c, k)
    /\ panicked' = Panics(Program(c))
    /\ ncalls' = ncalls + 1
    /\ last' = c
    /\ twice' = (c = last)
    /\ replica' = Replicate(c, replica)
    /\ inOrder' = (inOrder /\ Ordered(c, replica))
    /\ UNCHANGED <<g, writer, waitVars, setVars>>

CallOnAdd ==
    \E obj \in Objects, isInInitialList \in BOOLEAN :
        /\ ~panicked
        /\ ncalls < MaxCalls
        /\ Deliver(Call("OnAdd", obj, NilObj, isInInitialList))

CallOnUpdate ==
    \E new \in Objects : \E old \in OldFor(new) :
        /\ ~panicked
        /\ ncalls < MaxCalls
        /\ Deliver(Call("OnUpdate", new, old, FALSE))

CallOnDelete ==
    \E obj \in Objects :
        /\ ~panicked
        /\ ncalls < MaxCalls
        /\ Deliver(Call("OnDelete", obj, NilObj, FALSE))

Next == CallOnAdd \/ CallOnUpdate \/ CallOnDelete

Spec == Init /\ [][Next]_vars

\* ------------------------------- ConcSpec: calls overlapping on goroutines
\* Each goroutine makes one call and runs its program one atomic operation at
\* a time; the operations of different goroutines interleave freely.

ConcObjects == PodObjs \cup {NodeObj} \cup {o \in SliceObjs : Len(o.Endpoints) = 1}

\* A relist update (old = new), or an update with no usable old object.
ConcOldFor(new) == IF IsPod(new) THEN {new, NilObj} ELSE {new}

Go(i, c) ==
    /\ g[i].st = "idle"
    /\ g' = [g EXCEPT ![i] =
                [call |-> c, pc |-> 0,
                 st |-> IF Len(Program(c)) = 0 THEN "returned" ELSE "running"]]
    /\ UNCHANGED <<k, panicked, ncalls, last, twice, replica, inOrder, writer, waitVars, setVars>>

GoOnAdd ==
    \E i \in Goroutines, obj \in ConcObjects :
        /\ ~panicked
        /\ Go(i, Call("OnAdd", obj, NilObj, FALSE))

GoOnUpdate ==
    \E i \in Goroutines, new \in ConcObjects : \E old \in ConcOldFor(new) :
        /\ ~panicked
        /\ Go(i, Call("OnUpdate", new, old, FALSE))

GoOnDelete ==
    \E i \in Goroutines, obj \in ConcObjects :
        /\ ~panicked
        /\ Go(i, Call("OnDelete", obj, NilObj, FALSE))

\* The next atomic operation of goroutine i.
Step ==
    \E i \in Goroutines :
        /\ ~panicked
        /\ g[i].st = "running"
        /\ LET prog == Program(g[i].call)
               op   == prog[g[i].pc + 1]
               fin  == g[i].pc + 1 = Len(prog)
           IN  /\ k' = Apply(op, k)
               /\ panicked' = (op.m = "panic")
               /\ g' = [g EXCEPT ![i].pc = @ + 1,
                                 ![i].st = IF op.m = "panic" THEN "panicked"
                                           ELSE IF fin THEN "returned" ELSE "running"]
               /\ writer' = IF op.m \in {"IPToSrc.Store", "IPToSrc.Delete"}
                            THEN [writer EXCEPT ![op.key] = i]
                            ELSE writer
        /\ UNCHANGED <<ncalls, last, twice, replica, inOrder, waitVars, setVars>>

ConcNext == GoOnAdd \/ GoOnUpdate \/ GoOnDelete \/ Step

ConcSpec == Init /\ [][ConcNext]_vars


\* ------------------------------------------- KubeSpec: K8S.init (mk8s.New)
\* init returns at once when Default is set; else it loads the kubeconfig
\* file (KUBECONFIG, else $HOME/.kube/config), then the in-cluster files; a
\* deferred function fills the empty Namespace and Name of Default.

ContextNames == {"c1", "c2"}

\* A cluster of the set: ByName is keyed by Name, Default holds a Name or "nil".
Cluster(name, ns) == [Name |-> name, Namespace |-> ns]

\* A kubeconfig context: valid when ClientConfig() gives a rest.Config for it.
Context(name, ns, valid) == [Name |-> name, Namespace |-> ns, valid |-> valid]

\* The kubeconfig files: the contexts of the merged config and current-context.
Kubeconfigs ==
    { [state |-> "ok", Contexts |-> c1 \cup c2, CurrentContext |-> cur] :
        c1 \in {{}, {Context("c1", "", TRUE)}, {Context("c1", "", FALSE)}},
        c2 \in {{}, {Context("c2", "ns2", TRUE)}},
        cur \in {""} \cup ContextNames }

\* A path that does not exist ("missing"), a file RawConfig() fails on ("bad"),
\* or a kubeconfig.
Files ==
    {[state |-> st, Contexts |-> {}, CurrentContext |-> ""] : st \in {"missing", "bad"}}
    \cup Kubeconfigs

\* What init reads from the process environment and the file system.
Environments ==
    [ KUBECONFIG    : {"", "kc"},
      files         : [{"kc", "home"} -> Files],
      tokenFile     : {"missing", "present"},
      rootCAFile    : {"bad", "good"},
      POD_NAMESPACE : {"", "pod-ns"} ]

\* ByName[c.Name] = c
ByNameStore(byName, c) == {e \in byName : e.Name # c.Name} \cup {c}

\* Faulty variant: the in-cluster cluster always becomes Default.
loadInClusterTakesDefault(s, o) ==
    IF o.tokenFile = "missing" THEN [kr |-> s, err |-> FALSE]
    ELSE IF o.rootCAFile = "bad" THEN [kr |-> s, err |-> TRUE]
    ELSE [kr  |-> [ByName  |-> ByNameStore(s.ByName, Cluster("incluster", o.POD_NAMESPACE)),
                   Default |-> "incluster"],
          err |-> FALSE]

\* LoadKubeConfig(""): every context that gives a rest.Config is stored in
\* ByName; the one named by current-context becomes Default if none is set.
LoadKubeConfig(s, o) ==
    LET configFile == IF o.KUBECONFIG # "" THEN o.KUBECONFIG ELSE "home"
        f == o.files[configFile]
    IN  IF f.state = "missing" THEN [kr |-> s, err |-> FALSE]
        ELSE IF f.state = "bad" THEN [kr |-> s, err |-> TRUE]
        ELSE LET loaded == {c \in f.Contexts : c.valid}
                 names  == {c.Name : c \in loaded}
             IN  [kr  |-> [ByName  |-> {e \in s.ByName : e.Name \notin names}
                                       \cup {Cluster(c.Name, c.Namespace) : c \in loaded},
                           Default |-> IF s.Default = "nil" /\ f.CurrentContext \in names
                                       THEN f.CurrentContext ELSE s.Default],
                  err |-> FALSE]

\* loadInCluster: nothing without the token file, an error without the root
\* CA; else the cluster "incluster" is stored and is Default if none is set.
loadInCluster(s, o) ==
    IF o.tokenFile = "missing" THEN [kr |-> s, err |-> FALSE]
    ELSE IF o.rootCAFile = "bad" THEN [kr |-> s, err |-> TRUE]
    ELSE [kr  |-> [ByName  |-> ByNameStore(s.ByName, Cluster("incluster", o.POD_NAMESPACE)),
                   Default |-> IF s.Default = "nil" THEN "incluster" ELSE s.Default],
          err |-> FALSE]

\* The deferred function of init: Default's empty Namespace becomes "default"
\* (its Name is never empty here).
InitDefer(s) ==
    [s EXCEPT !.ByName = {IF e.Name = s.Default /\ e.Namespace = ""
                          THEN [e EXCEPT !.Namespace = "default"] ELSE e : e \in s.ByName}]

\* The cluster sets init is called on: the one of New, and one with a Default.
KubeInit ==
    /\ IndexInit
    /\ kr \in {[ByName |-> {}, Default |-> "nil"],
               [ByName |-> {Cluster("set", "")}, Default |-> "set"]}
    /\ os \in Environments
    /\ run = [pc |-> "idle"]
    /\ cluster = "none"
    /\ csrs = {}
    /\ issued = {}

\* kr.init(ctx) is called: if kr.Default != nil { return nil }
CallInit ==
    /\ run.pc = "idle"
    /\ run' = [pc |-> IF kr.Default # "nil" THEN "defer" ELSE "LoadKubeConfig",
               err |-> FALSE, kr0 |-> kr]
    /\ UNCHANGED <<indexVars, kr, os, cluster, csrs, issued>>

\* err := kr.LoadKubeConfig(""); if err != nil { return err }
InitLoadKubeConfig ==
    /\ run.pc = "LoadKubeConfig"
    /\ LET r == LoadKubeConfig(kr, os)
       IN  /\ kr' = r.kr
           /\ run' = [run EXCEPT !.pc = IF r.err THEN "defer" ELSE "loadInCluster",
                                 !.err = r.err]
    /\ UNCHANGED <<indexVars, os, cluster, csrs, issued>>

\* err = kr.loadInCluster(); return err
InitLoadInCluster ==
    /\ run.pc = "loadInCluster"
    /\ LET r == loadInCluster(kr, os)
       IN  /\ kr' = r.kr
           /\ run' = [run EXCEPT !.pc = "defer", !.err = r.err]
    /\ UNCHANGED <<indexVars, os, cluster, csrs, issued>>

\* The deferred function runs and init returns run.err.
InitReturn ==
    /\ run.pc = "defer"
    /\ kr' = InitDefer(kr)
    /\ run' = [run EXCEPT !.pc = "done"]
    /\ UNCHANGED <<indexVars, os, cluster, csrs, issued>>

KubeNext == CallInit \/ InitLoadKubeConfig \/ InitLoadInCluster \/ InitReturn

KubeSpec == KubeInit /\ [][KubeNext]_vars

\* ------------------------------------- WaitSpec: the K8SIPWatcher and WaitForInit
\* NewK8SWatcher registers a fresh K8SData (k) with the pod informer and the
\* node informer; Start then points c.K8SData at the struct it was given (kd)
\* and starts the informers.  The informers deliver each resource's events in
\* order and report HasSynced once their first list is in.  WaitForInit polls
\* the two HasSynced functions until both hold or stopCh is closed.

\* Faulty variant: only the pod informer is waited for.
WaitForCacheSyncPodOnly(first, podSynced, nodeSynced, closed) ==
    IF first
    THEN (IF podSynced THEN {"true"} ELSE IF closed THEN {"false"} ELSE {"again"})
    ELSE {IF podSynced THEN "true" ELSE "again"} \cup (IF closed THEN {"false"} ELSE {})

\* Faulty variant: stopCh is never looked at.
WaitForCacheSyncNoStop(first, podSynced, nodeSynced, closed) ==
    {IF podSynced /\ nodeSynced THEN "true" ELSE "again"}

\* cache.WaitForCacheSync(stopCh, pod.HasSynced, node.HasSynced), one poll of
\* it: the outcomes it can have.  The first poll runs the HasSynced functions
\* at once and looks at stopCh only when they do not all hold; every later
\* poll is a select between the next tick (run them again) and stopCh.
WaitForCacheSync(first, podSynced, nodeSynced, closed) ==
    IF first
    THEN (IF podSynced /\ nodeSynced THEN {"true"}
          ELSE IF closed THEN {"false"} ELSE {"again"})
    ELSE {IF podSynced /\ nodeSynced THEN "true" ELSE "again"}
         \cup (IF closed THEN {"false"} ELSE {})

BothSynced == inf.pod /\ inf.node

\* The history after a step that leaves the informers at i and stopCh at s.
Seen(i, s) ==
    [syncedOpen |-> seen.syncedOpen \/ (i.pod /\ i.node /\ s = "open"),
     stopFirst  |-> seen.stopFirst \/ (s = "closed" /\ stopCh = "open" /\ ~BothSynced)]

\* Start(kd, config): pods.K8SData = kd; go factory.Start(stop).
Start ==
    /\ ~watcher.started
    /\ watcher' = [K8SData |-> "kd", started |-> TRUE]
    /\ UNCHANGED <<k, panicked, ncalls, last, twice, replica, inOrder, g, writer,
                   kd, inf, stopCh, wait, seen, setVars>>

\* A caller of NewK8SWatcher that starts the informer factory itself.
FactoryStart ==
    /\ ~watcher.started
    /\ watcher' = [watcher EXCEPT !.started = TRUE]
    /\ UNCHANGED <<k, panicked, ncalls, last, twice, replica, inOrder, g, writer,
                   kd, inf, stopCh, wait, seen, setVars>>

PodInformerSynced ==
    /\ watcher.started /\ ~inf.pod
    /\ inf' = [inf EXCEPT !.pod = TRUE]
    /\ seen' = Seen(inf', stopCh)
    /\ UNCHANGED <<k, panicked, ncalls, last, twice, replica, inOrder, g, writer,
                   watcher, kd, stopCh, wait, setVars>>

NodeInformerSynced ==
    /\ watcher.started /\ ~inf.node
    /\ inf' = [inf EXCEPT !.node = TRUE]
    /\ seen' = Seen(inf', stopCh)
    /\ UNCHANGED <<k, panicked, ncalls, last, twice, replica, inOrder, g, writer,
                   watcher, kd, stopCh, wait, setVars>>

CloseStopCh ==
    /\ stopCh = "open"
    /\ stopCh' = "closed"
    /\ seen' = Seen(inf, "closed")
    /\ UNCHANGED <<k, panicked, ncalls, last, twice, replica, inOrder, g, writer,
                   watcher, kd, inf, wait, setVars>>

\* The objects of the watched kinds that the informers of WaitSpec report.
WatchPods == {o \in PodObjs : o.Name = "a" /\ o.PodIP \in {"", "10.0.0.1"}}

\* The events the informers deliver: a pod's in its order, Adds of the first
\* list flagged isInInitialList.
WatchAdd ==
    \E obj \in WatchPods \cup {NodeObj} :
        /\ watcher.started /\ ~panicked /\ ncalls < MaxCalls
        /\ Ordered(Call("OnAdd", obj, NilObj, FALSE), replica)
        /\ Deliver(Call("OnAdd", obj, NilObj,
                        IF IsPod(obj) THEN ~inf.pod ELSE ~inf.node))

WatchUpdate ==
    \E new \in WatchPods \cup {NodeObj} :
        \E old \in IF IsPod(new) THEN {e.value : e \in replica} ELSE {new} :
            /\ watcher.started /\ ~panicked /\ ncalls < MaxCalls
            /\ Ordered(Call("OnUpdate", new, old, FALSE), replica)
            /\ Deliver(Call("OnUpdate", new, old, FALSE))

WatchDelete ==
    \E obj \in {e.value : e \in replica} \cup {NodeObj} :
        /\ watcher.started /\ ~panicked /\ ncalls < MaxCalls
        /\ Ordered(Call("OnDelete", obj, NilObj, FALSE), replica)
        /\ Deliver(Call("OnDelete", obj, NilObj, FALSE))

\* Faulty variant: c.synced = true is written before the result is looked at.
WaitForInitSetsFirst(ok, s) ==
    [s |-> [s EXCEPT !.synced = TRUE], err |-> IF ok THEN "nil" ELSE "err"]

\* WaitForInit after cache.WaitForCacheSync returned ok, on the struct s that
\* c.K8SData points to: the struct it leaves and the error it returns.
WaitForInit(ok, s) ==
    IF ~ok
    THEN [s |-> s, err |-> "err"]
    ELSE [s |-> [s EXCEPT !.synced = TRUE], err |-> "nil"]

\* WaitForInit(stopCh) is called on the watcher of started informers.
CallWaitForInit ==
    /\ watcher.started
    /\ wait.pc = "idle"
    /\ wait' = [pc |-> "poll", res |-> "none"]
    /\ UNCHANGED <<k, panicked, ncalls, last, twice, replica, inOrder, g, writer,
                   watcher, kd, inf, stopCh, seen, setVars>>

\* One poll of cache.WaitForCacheSync by the goroutine of WaitForInit.
WaitPoll ==
    /\ wait.pc \in {"poll", "wait"}
    /\ \E r \in WaitForCacheSync(wait.pc = "poll", inf.pod, inf.node, stopCh = "closed") :
          wait' = CASE r = "true"  -> [pc |-> "synced", res |-> "none"]
                    [] r = "false" -> [pc |-> "failed", res |-> "none"]
                    [] OTHER       -> [pc |-> "wait", res |-> "none"]
    /\ UNCHANGED <<k, panicked, ncalls, last, twice, replica, inOrder, g, writer,
                   watcher, kd, inf, stopCh, seen, setVars>>

\* The rest of WaitForInit: return the error, or set c.synced and return nil.
\* The write goes to the struct c.K8SData points to.
WaitReturn ==
    /\ wait.pc \in {"synced", "failed"}
    /\ LET r == WaitForInit(wait.pc = "synced", IF watcher.K8SData = "k" THEN k ELSE kd)
       IN  /\ wait' = [pc |-> "idle", res |-> r.err]
           /\ k' = IF watcher.K8SData = "k" THEN r.s ELSE k
           /\ kd' = IF watcher.K8SData = "kd" THEN r.s ELSE kd
    /\ UNCHANGED <<panicked, ncalls, last, twice, replica, inOrder, g, writer,
                   watcher, inf, stopCh, seen, setVars>>

WaitNext ==
    \/ Start \/ FactoryStart \/ PodInformerSynced \/ NodeInformerSynced \/ CloseStopCh
    \/ WatchAdd \/ WatchUpdate \/ WatchDelete
    \/ CallWaitForInit \/ WaitPoll \/ WaitReturn

WaitSpec == Init /\ [][WaitNext]_vars

\* The goroutine of WaitForInit is scheduled again and again.
WaitFairSpec == WaitSpec /\ WF_vars(WaitPoll) /\ WF_vars(WaitReturn)

\* --------------------------------------------- SignerSpec: the CSR signer
\* K8SSigner is the event handler of the CertificateSigningRequest informer:
\* OnAdd calls OnUpdate, which signs the request and writes the certificate
\* to its status.  Requests are created, approved and denied by others.

CSRNames == {"r1", "r2"}
\* k.Name, the signer this K8SSigner serves.
SignerName == "mk8s"
SignerNames == {SignerName, "other"}

\* A CertificateSigningRequest: spec.request is "ok", not PEM ("notpem") or
\* not an x509 request ("notx509"); status.certificate is "nil" or a
\* certificate; status.conditions as the set of their types.
CSR(name, signer, request, cert, conds) ==
    [Name |-> name, SignerName |-> signer, Request |-> request,
     Certificate |-> cert, Conditions |-> conds]

getCertApprovalCondition(status) ==
    [approved |-> "Approved" \in status, denied |-> "Denied" \in status]

isCertificateRequestApproved(csr) ==
    LET c == getCertApprovalCondition(csr.Conditions)
    IN  c.approved /\ ~c.denied

\* K8SSigner.OnUpdate(old, csr), with signOk telling whether Signer.SignCSR
\* succeeds: the request object it leaves and what it logged last.  The test
\* of the approval has a log line for its body and nothing else.
K8SSignerOnUpdate(csr, signOk) ==
    IF csr.Request = "notpem"
    THEN [csr |-> csr, log |-> "certificate signing request is not properly encoded"]
    ELSE IF csr.Request = "notx509"
    THEN [csr |-> csr, log |-> "unable to parse csr"]
    ELSE IF csr.SignerName # SignerName
    THEN [csr |-> csr, log |-> "Received CSR"]
    ELSE IF csr.Certificate # "nil"
    THEN [csr |-> csr, log |-> "Received CSR"]
    ELSE IF ~signOk
    THEN [csr |-> csr, log |-> "Signing"]
    ELSE [csr |-> [csr EXCEPT !.Certificate = "cert"], log |-> "Signing"]

\* K8SSigner.OnAdd(obj, isInInitialList): k.OnUpdate(nil, obj)
K8SSignerOnAdd(csr, signOk) == K8SSignerOnUpdate(csr, signOk)

SignerInit ==
    /\ IndexInit
    /\ kr = [ByName |-> {}, Default |-> "nil"]
    /\ os = "none"
    /\ run = [pc |-> "idle"]
    /\ cluster = "none"
    /\ csrs = {}
    /\ issued = {}

\* A client creates a request.
CreateCSR ==
    \E name \in CSRNames, signer \in SignerNames, request \in {"ok", "notpem", "notx509"} :
        /\ \A r \in csrs : r.Name # name
        /\ csrs' = csrs \cup {CSR(name, signer, request, "nil", {})}
        /\ UNCHANGED <<indexVars, kr, os, run, cluster, issued>>

\* An approver adds an Approved or a Denied condition.
ApproveCSR ==
    \E r \in csrs, cond \in {"Approved", "Denied"} :
        /\ cond \notin r.Conditions
        /\ csrs' = (csrs \ {r}) \cup {[r EXCEPT !.Conditions = @ \cup {cond}]}
        /\ UNCHANGED <<indexVars, kr, os, run, cluster, issued>>

\* The rest of a handler call on r that left the request as signed: the
\* request is recorded as issued if a certificate was put in, and
\* UpdateStatus writes it to the API server unless it fails.
Signed(r, signed) ==
    /\ issued' = IF signed.Certificate # r.Certificate THEN issued \cup {r} ELSE issued
    /\ \E updateOk \in BOOLEAN :
          csrs' = IF updateOk THEN (csrs \ {r}) \cup {signed} ELSE csrs
    /\ UNCHANGED <<indexVars, kr, os, run, cluster>>

\* The informer delivers OnAdd for a request.
SignerOnAdd ==
    \E r \in csrs, signOk \in BOOLEAN :
        /\ r \in csrs
        /\ Signed(r, K8SSignerOnAdd(r, signOk).csr)

\* The informer delivers OnUpdate for a request.
SignerOnUpdate ==
    \E r \in csrs, signOk \in BOOLEAN :
        /\ r \in csrs
        /\ Signed(r, K8SSignerOnUpdate(r, signOk).csr)

SignerNext == CreateCSR \/ ApproveCSR \/ SignerOnAdd \/ SignerOnUpdate

SignerSpec == SignerInit /\ [][SignerNext]_vars

\* ------------------------------------------------------------- strings
\* Cluster names are Go strings that the code takes apart with
\* strings.HasPrefix, strings.Contains and strings.Split.  Chars gives the
\* characters of every string the model uses, Str the string of its characters.

Strings ==
    {"gke_p_uc_i", "gke", "p", "uc", "i", "gke_p_e_i", "e", "gke_p_uc_x",
     "x", "connectgateway_p_global_i", "connectgateway", "global", "gke_x",
     "k", "gke_p__i", "", "gke_p_uc_i_x", "gke_p_uc", "connectgateway_p",
     "gke_", "connectgateway_", "_", "u", "z",
     "gke_p_e_x", "connectgateway_p_i"}

Chars(s) ==
    CASE s = "gke_p_uc_i" -> <<"g", "k", "e", "_", "p", "_", "u", "c", "_", "i">>
      [] s = "gke" -> <<"g", "k", "e">>
      [] s = "p" -> <<"p">>
      [] s = "uc" -> <<"u", "c">>
      [] s = "i" -> <<"i">>
      [] s = "gke_p_e_i" -> <<"g", "k", "e", "_", "p", "_", "e", "_", "i">>
      [] s = "e" -> <<"e">>
      [] s = "gke_p_uc_x" -> <<"g", "k", "e", "_", "p", "_", "u", "c", "_", "x">>
      [] s = "x" -> <<"x">>
      [] s = "connectgateway_p_global_i" -> <<"c", "o", "n", "n", "e", "c", "t", "g", "a", "t", "e", "w", "a", "y", "_", "p", "_", "g", "l", "o", "b", "a", "l", "_", "i">>
      [] s = "connectgateway" -> <<"c", "o", "n", "n", "e", "c", "t", "g", "a", "t", "e", "w", "a", "y">>
      [] s = "global" -> <<"g", "l", "o", "b", "a", "l">>
      [] s = "gke_x" -> <<"g", "k", "e", "_", "x">>
      [] s = "k" -> <<"k">>
      [] s = "gke_p__i" -> <<"g", "k", "e", "_", "p", "_", "_", "i">>
      [] s = "" -> <<>>
      [] s = "gke_p_uc_i_x" -> <<"g", "k", "e", "_", "p", "_", "u", "c", "_", "i", "_", "x">>
      [] s = "gke_p_uc" -> <<"g", "k", "e", "_", "p", "_", "u", "c">>
      [] s = "connectgateway_p" -> <<"c", "o", "n", "n", "e", "c", "t", "g", "a", "t", "e", "w", "a", "y", "_", "p">>
      [] s = "gke_" -> <<"g", "k", "e", "_">>
      [] s = "connectgateway_" -> <<"c", "o", "n", "n", "e", "c", "t", "g", "a", "t", "e", "w", "a", "y", "_">>
      [] s = "_" -> <<"_">>
      [] s = "u" -> <<"u">>
      [] s = "z" -> <<"z">>
      [] s = "gke_p_e_x" -> <<"g", "k", "e", "_", "p", "_", "e", "_", "x">>
      [] s = "connectgateway_p_i" -> <<"c", "o", "n", "n", "e", "c", "t", "g", "a", "t", "e", "w", "a", "y", "_", "p", "_", "i">>

Str(cs) == CHOOSE s \in Strings : Chars(s) = cs

\* strings.HasPrefix(s, prefix)
HasPrefix(s, prefix) ==
    /\ Len(Chars(prefix)) <= Len(Chars(s))
    /\ SubSeq(Chars(s), 1, Len(Chars(prefix))) = Chars(prefix)

\* strings.Contains(s, substr)
Contains(s, substr) ==
    \E i \in 0..(Len(Chars(s)) - Len(Chars(substr))) :
        SubSeq(Chars(s), i + 1, i + Len(Chars(substr))) = Chars(substr)

\* The pieces of the characters cs between the separator character.
RECURSIVE SplitChars(_, _, _)
SplitChars(cs, sep, piece) ==
    IF cs = << >> THEN << Str(piece) >>
    ELSE IF Head(cs) = sep THEN << Str(piece) >> \o SplitChars(Tail(cs), sep, << >>)
    ELSE SplitChars(Tail(cs), sep, Append(piece, Head(cs)))

\* strings.Split(s, sep) for a separator of one character
Split(s, sep) == SplitChars(Chars(s), Chars(sep)[1], << >>)

\* ------------------------------------------- GcpSpec: K8SCluster.GcpInfo
\* GcpInfo takes project, location and name out of the cluster's Name and
\* keeps them in the struct; Location and Label call it.  An index past the
\* end of parts is a run-time panic.

\* &K8SCluster{Name: name}
NewK8SCluster(name) == [Name |-> name, project |-> "", location |-> "", name |-> ""]

\* A call's outcome: the struct it leaves, what it returns, whether it panicked.
Outcome(c, ret, panic) == [k |-> c, ret |-> ret, panic |-> panic]

\* parts of a "gke_" Name: project, location and name are assigned from
\* parts[1], parts[2], parts[3] before len(parts) is looked at.
GcpInfoGke(c, parts) ==
    IF Len(parts) < 2 THEN Outcome(c, << >>, TRUE)
    ELSE IF Len(parts) < 3 THEN Outcome([c EXCEPT !.project = parts[2]], << >>, TRUE)
    ELSE IF Len(parts) < 4
    THEN Outcome([c EXCEPT !.project = parts[2], !.location = parts[3]], << >>, TRUE)
    ELSE Outcome([c EXCEPT !.project = parts[2], !.location = parts[3], !.name = parts[4]],
                 <<parts[2], parts[3], parts[4]>>, FALSE)

\* What follows the "gke_" block of GcpInfo.
GcpInfoConnectGateway(c) ==
    IF HasPrefix(c.Name, "connectgateway_") /\ Len(Split(c.Name, "_")) > 2
    THEN Outcome([c EXCEPT !.project = Split(c.Name, "_")[2]],
                 <<Split(c.Name, "_")[2], "", Split(c.Name, "_")[3]>>, FALSE)
    ELSE Outcome(c, <<"", "", c.Name>>, FALSE)

\* K8SCluster.GcpInfo of package mk8s: with a cached location it returns
\* k.project, k.location and k.Name.
GcpInfo(c) ==
    IF c.location # "" THEN Outcome(c, <<c.project, c.location, c.Name>>, FALSE)
    ELSE IF HasPrefix(c.Name, "gke_") THEN GcpInfoGke(c, Split(c.Name, "_"))
    ELSE GcpInfoConnectGateway(c)

\* K8SCluster.Location
Location(c) ==
    LET r == IF c.location = "" THEN GcpInfo(c) ELSE Outcome(c, << >>, FALSE)
    IN  Outcome(r.k, r.k.location, r.panic)

\* K8SCluster.Label(ctx, name)
Label(c, name) ==
    CASE name = "location" -> Location(c)
      [] name = "project"  -> Outcome(GcpInfo(c).k, GcpInfo(c).k.project, GcpInfo(c).panic)
      [] name = "name"     -> Outcome(GcpInfo(c).k, GcpInfo(c).k.name, GcpInfo(c).panic)
      [] OTHER             -> Outcome(c, "", FALSE)

GcpNames ==
    {"gke_p_uc_i", "gke_p_e_i", "gke_p_uc_x", "connectgateway_p_global_i",
     "gke_x", "k", "gke_p__i", "gke_p_uc_i_x",
     "gke_p_uc", "connectgateway_p", "",
     "gke_p_e_x", "connectgateway_p_i"}

GcpInit ==
    /\ IndexInit
    /\ kr = [ByName |-> {}, Default |-> "nil"]
    /\ os = "none"
    /\ run = [pc |-> "idle", n |-> 0, first |-> << >>, ret |-> << >>]
    /\ cluster \in {NewK8SCluster(name) : name \in GcpNames}
    /\ csrs = {}
    /\ issued = {}

\* A call on the cluster returned or panicked; a panic ends the process.
Returns(r, n) ==
    /\ cluster' = r.k
    /\ run' = [run EXCEPT !.pc = IF r.panic THEN "panic" ELSE "idle", !.n = n]
    /\ UNCHANGED <<indexVars, kr, os, csrs, issued>>

\* k.GcpInfo(): the triple it returns is kept, the first one too.
CallGcpInfo ==
    /\ run.pc = "idle" /\ run.n < MaxCalls
    /\ LET r == GcpInfo(cluster)
       IN  /\ cluster' = r.k
           /\ run' = [pc    |-> IF r.panic THEN "panic" ELSE "idle",
                      n     |-> run.n + 1,
                      first |-> IF run.first = << >> THEN r.ret ELSE run.first,
                      ret   |-> r.ret]
    /\ UNCHANGED <<indexVars, kr, os, csrs, issued>>

\* k.Location()
CallLocation ==
    /\ run.pc = "idle" /\ run.n < MaxCalls
    /\ Returns(Location(cluster), run.n + 1)

\* k.Label(ctx, name)
CallLabel ==
    \E name \in {"location", "project", "name", "region"} :
        /\ run.pc = "idle" /\ run.n < MaxCalls
        /\ Returns(Label(cluster, name), run.n + 1)

GcpNext == CallGcpInfo \/ CallLocation \/ CallLabel

GcpSpec == GcpInit /\ [][GcpNext]_vars

\* ------------------------------------ FindSpec: GKE.autodetect, FindCluster
\* autodetect loads the GKE and hub clusters into K8S.ByName, next to the
\* contexts of the kubeconfig, calls FindCluster and makes its result Default.
\* FindCluster ranges over the map up to four times; every range of a Go map
\* visits the entries in an order of its own.

MaxClusters == 3

FindNames ==
    {"gke_p_uc_i", "gke_p_e_i", "gke_p_uc_x", "connectgateway_p_global_i", "gke_x", "k"}

\* K8SCluster.GcpInfo of package k8s: no early return of cached fields.
k8sGcpInfo(c) ==
    IF HasPrefix(c.Name, "gke_") THEN GcpInfoGke(c, Split(c.Name, "_"))
    ELSE GcpInfoConnectGateway(c)

\* K8SCluster.Location of package k8s
k8sLocation(c) ==
    LET r == IF c.location = "" THEN k8sGcpInfo(c) ELSE Outcome(c, << >>, FALSE)
    IN  Outcome(r.k, r.k.location, r.panic)

\* The orders a range over the map can visit its entries in.
Orders(byName) ==
    {o \in [1..Cardinality(byName) -> byName] :
        \A i, j \in 1..Cardinality(byName) : o[i] = o[j] => i = j}

\* One range of FindCluster over the entries in the given order, up to its
\* break: the cluster found (a set, empty for nil), or a panic of Location.
\* inRegion: entries outside myRegion are skipped, when myRegion is not empty;
\* byName: only an entry whose Name contains clusterName is taken.
RECURSIVE FindRange(_, _, _, _, _)
FindRange(order, inRegion, byName, myRegion, clusterName) ==
    IF order = << >> THEN [cl |-> {}, panic |-> FALSE]
    ELSE LET c == Head(order)
             rest == FindRange(Tail(order), inRegion, byName, myRegion, clusterName)
         IN  IF inRegion /\ myRegion # "" /\ k8sLocation(c).panic
             THEN [cl |-> {}, panic |-> TRUE]
             ELSE IF inRegion /\ myRegion # "" /\ ~HasPrefix(k8sLocation(c).ret, myRegion)
             THEN rest
             ELSE IF byName /\ ~Contains(c.Name, clusterName)
             THEN rest
             ELSE [cl |-> {c}, panic |-> FALSE]

\* The cluster sets autodetect finds once the clusters are loaded.
FindInit ==
    /\ IndexInit
    /\ kr \in {[ByName |-> b, Default |-> "nil"] :
                 b \in {x \in SUBSET {NewK8SCluster(n) : n \in FindNames} :
                          Cardinality(x) <= MaxClusters}}
    /\ os = "none"
    /\ run = [pc |-> "idle", myRegion |-> "", clusterName |-> "", cl |-> {}]
    /\ cluster = "none"
    /\ csrs = {}
    /\ issued = {}

\* cl := gke.FindCluster(myRegion, findClusterN)
CallFindCluster ==
    \E myRegion \in {"", "u", "e"}, clusterName \in {"", "i", "z"} :
        /\ run.pc = "idle"
        /\ run' = [pc |-> IF clusterName # "" THEN "regionAndName" ELSE "region",
                   myRegion |-> myRegion, clusterName |-> clusterName, cl |-> {}]
        /\ UNCHANGED <<indexVars, kr, os, cluster, csrs, issued>>

\* One of the ranges, then the test of cl that follows it.
FindLoop(inRegion, byName, next) ==
    /\ \E order \in Orders(kr.ByName) :
          LET r == FindRange(order, inRegion, byName, run.myRegion, run.clusterName)
          IN  run' = [run EXCEPT !.cl = r.cl,
                                 !.pc = IF r.panic THEN "panic"
                                        ELSE IF r.cl = {} THEN next ELSE "return"]
    /\ UNCHANGED <<indexVars, kr, os, cluster, csrs, issued>>

FindByRegionAndName ==
    /\ run.pc = "regionAndName"
    /\ FindLoop(TRUE, TRUE, "name")

FindByName ==
    /\ run.pc = "name"
    /\ FindLoop(FALSE, TRUE, "region")

FindByRegion ==
    /\ run.pc = "region"
    /\ FindLoop(TRUE, FALSE, "any")

FindAny ==
    /\ run.pc = "any"
    /\ FindLoop(FALSE, FALSE, "return")

\* FindCluster returns cl; autodetect: gke.K8S.Default = cl
AutodetectReturn ==
    /\ run.pc = "return"
    /\ kr' = [kr EXCEPT !.Default = IF run.cl = {} THEN "nil"
                                    ELSE (CHOOSE c \in run.cl : TRUE).Name]
    /\ run' = [run EXCEPT !.pc = "done"]
    /\ UNCHANGED <<indexVars, os, cluster, csrs, issued>>

FindNext ==
    \/ CallFindCluster \/ FindByRegionAndName \/ FindByName \/ FindByRegion \/ FindAny
    \/ AutodetectReturn

FindSpec == FindInit /\ [][FindNext]_vars

\* =================================================================== claims

LastIsPod(fn) == last.fn = fn /\ IsPod(last.obj)

\* C1: after OnAdd(p, any flag) of a pod with a non-empty Status.PodIP, and
\* before any other call, loading p's address from IPToSrc returns p, whatever
\* record held that address before.
C1_AddThenLookupByAddress ==
    (LastIsPod("OnAdd") /\ last.obj.PodIP # "")
        => Load(k.IPToSrc, last.obj.PodIP) = Found(last.obj)

\* The address was held by another live pod when p was added, and p has it now.
C1_Witness ==
    /\ LastIsPod("OnAdd") /\ last.obj.PodIP # ""
    /\ \E e \in replica : e.value # last.obj /\ e.value.PodIP = last.obj.PodIP
    /\ Load(k.IPToSrc, last.obj.PodIP) = Found(last.obj)

\* C2 (as claimed): after a sequence of OnAdd and OnUpdate calls for a pod,
\* delivered in the source's order, loading its composite key from PodInfo
\* returns the snapshot of the last OnAdd or OnUpdate call.
C2_LastWriteWinsByName ==
    (inOrder /\ ~panicked /\ (LastIsPod("OnAdd") \/ LastIsPod("OnUpdate")))
        => Load(k.PodInfo, PodKey(last.obj)) = Found(last.obj)

\* C3 (as claimed): after OnDelete(p) of a pod, with no OnAdd of the same name
\* and namespace after it, loading p's composite key from PodInfo finds nothing.
C3_DeleteThenNameNotFound ==
    (inOrder /\ LastIsPod("OnDelete"))
        => ~Load(k.PodInfo, PodKey(last.obj)).ok

\* C4: a call of OnDelete leaves PodInfo as it was: every key loads what it
\* loaded before the call.
C4_DeleteKeepsNameIndex ==
    [][last'.fn = "OnDelete" => k'.PodInfo = k.PodInfo]_vars

\* A pod added and then deleted is still found by name.
C4_Witness ==
    /\ LastIsPod("OnDelete") /\ inOrder
    /\ Load(k.PodInfo, PodKey(last.obj)) = Found(last.obj)

\* C5: OnDelete(p) of a pod removes the IPToSrc entry of p's address when the
\* address is non-empty, and nothing else; with an empty address it leaves
\* IPToSrc as it was.
C5_DeleteRemovesAddress ==
    [][(last'.fn = "OnDelete" /\ IsPod(last'.obj)) =>
          IF last'.obj.PodIP # ""
          THEN /\ ~Load(k'.IPToSrc, last'.obj.PodIP).ok
               /\ k'.IPToSrc = {e \in k.IPToSrc : e.key # last'.obj.PodIP}
          ELSE k'.IPToSrc = k.IPToSrc]_vars

\* A pod with an address was added, then deleted: its address is not found.
C5_Witness ==
    /\ LastIsPod("OnDelete") /\ inOrder /\ last.obj.PodIP # ""
    /\ Load(k.IPToSrc, last.obj.PodIP) = NotFound

\* C6: after OnUpdate(old, new) of a pod whose new address is non-empty,
\* loading the new address from IPToSrc returns the new snapshot.
C6_UpdateThenLookupByNewAddress ==
    (LastIsPod("OnUpdate") /\ ~panicked /\ last.obj.PodIP # "")
        => Load(k.IPToSrc, last.obj.PodIP) = Found(last.obj)

\* The pod moved from one address to another.
C6_Witness ==
    /\ LastIsPod("OnUpdate") /\ ~panicked /\ inOrder
    /\ last.obj.PodIP # "" /\ last.old.PodIP # last.obj.PodIP
    /\ Load(k.IPToSrc, last.obj.PodIP) = Found(last.obj)

\* C7: OnUpdate removes no IPToSrc entry: every address indexed before the
\* call is indexed after it, and every address other than the new one keeps
\* its record (so the old address of a pod that moved keeps the stale one).
C7_UpdateKeepsOldAddress ==
    [][last'.fn = "OnUpdate" =>
          \A e \in k.IPToSrc :
              /\ Load(k'.IPToSrc, e.key).ok
              /\ (~IsPod(last'.obj) \/ e.key # last'.obj.PodIP) => e \in k'.IPToSrc]_vars

\* A pod added with address a was updated to another address: a still loads
\* the snapshot stored by the OnAdd.
C7_Witness ==
    /\ LastIsPod("OnUpdate") /\ ~panicked /\ inOrder
    /\ last.old.PodIP # "" /\ last.obj.PodIP # last.old.PodIP
    /\ Load(k.IPToSrc, last.old.PodIP) = Found(last.old)

\* A call of OnAdd with the object of the OnAdd before it.
RepeatedAdd == last.fn = "OnAdd" /\ last'.fn = "OnAdd" /\ last'.obj = last.obj /\ ncalls' # ncalls

\* C8 (as claimed): OnAdd(o); OnAdd(o) leaves the indexes and the counters as
\* a single OnAdd(o) leaves them.
C8_AddIdempotent ==
    [][RepeatedAdd => k' = k]_vars

\* C8 (amended): OnAdd(o); OnAdd(o) leaves IPToSrc and PodInfo as a single
\* OnAdd(o) leaves them, and counts the event again: Pods + 1 for a pod,
\* Slices + 1 and SliceIPs + len(Endpoints) for an EndpointSlice.
C8_AddIdempotentOnIndexes ==
    [][RepeatedAdd =>
          /\ k'.IPToSrc = k.IPToSrc
          /\ k'.PodInfo = k.PodInfo
          /\ k'.Pods = k.Pods + (IF IsPod(last.obj) THEN 1 ELSE 0)
          /\ k'.Slices = k.Slices + (IF last.obj.kind = "EndpointSlice" THEN 1 ELSE 0)
          /\ k'.SliceIPs = k.SliceIPs +
                (IF last.obj.kind = "EndpointSlice" THEN Len(last.obj.Endpoints) ELSE 0)]_vars

\* The same pod, with an address, was added twice in a row.
C8_Witness ==
    /\ twice /\ LastIsPod("OnAdd") /\ last.obj.PodIP # ""
    /\ Load(k.IPToSrc, last.obj.PodIP) = Found(last.obj)
    /\ Load(k.PodInfo, PodKey(last.obj)) = Found(last.obj)
    /\ k.Pods = 2

\* ------------------------------------------------------- concurrent claims

Called == {i \in Goroutines : g[i].st # "idle"}
AllReturned == Called # {} /\ \A i \in Called : g[i].st = "returned"

\* Every call made is an OnAdd of a pod, and the pods differ in name or namespace.
DistinctAdds ==
    /\ \A i \in Called : g[i].call.fn = "OnAdd" /\ IsPod(g[i].call.obj)
    /\ \A i, j \in Called :
          i # j => <<g[i].call.obj.Name, g[i].call.obj.Namespace>>
                       # <<g[j].call.obj.Name, g[j].call.obj.Namespace>>

\* C9: when the goroutines call OnAdd with pods of pairwise distinct composite
\* names, then however their operations interleave, once all have returned
\* every pod is found in PodInfo and Pods counts exactly the calls.
C9_NoLostAdds ==
    (AllReturned /\ DistinctAdds) =>
        /\ \A i \in Called : Load(k.PodInfo, PodKey(g[i].call.obj)) = Found(g[i].call.obj)
        /\ k.Pods = Cardinality(Called)

C9_Witness ==
    /\ AllReturned /\ DistinctAdds /\ Called = Goroutines
    /\ \A i \in Called : Load(k.PodInfo, PodKey(g[i].call.obj)) = Found(g[i].call.obj)

\* Whether a call's program operates on address a of IPToSrc.
Touches(c, a) ==
    \E n \in 1..Len(Program(c)) :
        Program(c)[n].m \in {"IPToSrc.Store", "IPToSrc.Delete"} /\ Program(c)[n].key = a

\* Goroutines i and j called OnAdd with pods of different names and the same
\* non-empty address a, and no other call operates on a.
SameAddressAdds(i, j, a) ==
    /\ i # j /\ a # ""
    /\ g[i].call.fn = "OnAdd" /\ IsPod(g[i].call.obj) /\ g[i].call.obj.PodIP = a
    /\ g[j].call.fn = "OnAdd" /\ IsPod(g[j].call.obj) /\ g[j].call.obj.PodIP = a
    /\ g[i].call.obj.Name # g[j].call.obj.Name
    /\ \A h \in Goroutines \ {i, j} : ~Touches(g[h].call, a)

\* C10: IPToSrc holds at every instant at most one record per address; and
\* when two OnAdd calls for pods of different names and the same non-empty
\* address overlap, then once both have returned the address loads one of the
\* two pods, the one whose store came last.
C10_OneRecordPerAddress ==
    /\ \A e1, e2 \in k.IPToSrc : e1.key = e2.key => e1 = e2
    /\ \A i, j \in Goroutines : \A a \in IPs :
          (SameAddressAdds(i, j, a) /\ g[i].st = "returned" /\ g[j].st = "returned") =>
              /\ Load(k.IPToSrc, a) \in {Found(g[i].call.obj), Found(g[j].call.obj)}
              /\ writer[a] \in {i, j}
              /\ Load(k.IPToSrc, a) = Found(g[writer[a]].call.obj)

\* Both calls returned, and the first goroutine's pod holds the address.
C10_Witness ==
    \E j \in Goroutines, a \in IPs :
        /\ SameAddressAdds(1, j, a) /\ g[1].st = "returned" /\ g[j].st = "returned"
        /\ Load(k.IPToSrc, a) = Found(g[1].call.obj)
        /\ Load(k.PodInfo, PodKey(g[j].call.obj)) = Found(g[j].call.obj)

\* ------------------------------------------------------- WaitForInit claims

\* The synced field of the struct the watcher's K8SData points to (c.synced).
CSynced == IF watcher.K8SData = "k" THEN k.synced ELSE kd.synced

\* C11 (as claimed): WaitForInit returns nil only if both informers reported
\* HasSynced at an instant when stopCh was still open, and returns an error
\* if stopCh was closed before both had synced.
C11_NilOnlyIfSyncedWhileOpen ==
    /\ wait.res = "nil" => seen.syncedOpen
    /\ (wait.res # "none" /\ seen.stopFirst) => wait.res = "err"

\* C11 (amended): WaitForInit returns nil only if both informers report
\* HasSynced by the time it returns, and an error only if stopCh is closed.
C11_NilOnlyIfSynced ==
    /\ (wait.pc = "synced" \/ wait.res = "nil") => BothSynced
    /\ (wait.pc = "failed" \/ wait.res = "err") => stopCh = "closed"

\* WaitForInit returned nil with both informers synced and stopCh open.
C11_Witness ==
    wait.res = "nil" /\ BothSynced /\ stopCh = "open" /\ seen.syncedOpen /\ CSynced

\* C12: once WaitForInit has been called and both informers have synced or
\* stopCh is closed, WaitForInit returns, if its goroutine keeps being
\* scheduled; and the informers' events are delivered whatever WaitForInit is
\* doing.
C12_WaitForInitReturns ==
    /\ (wait.pc # "idle" /\ (BothSynced \/ stopCh = "closed")) ~> (wait.pc = "idle")
    /\ []((watcher.started /\ ~panicked /\ ncalls < MaxCalls) => ENABLED WatchAdd)

\* WaitForInit returned an error: stopCh was closed with an informer not synced.
C12_Witness ==
    wait.pc = "idle" /\ wait.res = "err" /\ stopCh = "closed" /\ ~BothSynced

\* C13: synced is false at first, is set only by a WaitForInit that returns
\* nil, is never reset, and is false when WaitForInit has returned an error;
\* no handler changes it.
C13_SyncedOneWay ==
    /\ ~k.synced /\ ~kd.synced
    /\ [](wait.res = "err" => ~CSynced)
    /\ [][/\ k.synced => k'.synced
          /\ kd.synced => kd'.synced
          /\ (k'.synced # k.synced \/ kd'.synced # kd.synced)
                => (wait.pc = "synced" /\ wait'.res = "nil")]_vars

\* WaitForInit returned nil, and a handler ran after it: synced is still set.
C13_Witness ==
    /\ wait.res = "nil" /\ CSynced
    /\ last.fn = "OnAdd" /\ IsPod(last.obj) /\ ~last.flag

\* ------------------------------------------------- flag, counters, shapes

\* C14: OnAdd(o, true) and OnAdd(o, false) leave the same indexes and
\* counters from every state, with synced set or not; the handlers do not read
\* synced, and a lookup gives the same result with synced set or not.
C14_FlagDoesNotIndex ==
    LET s == [k EXCEPT !.synced = ~k.synced]
    IN  /\ \A o \in Objects :
              LET t == Run(Call("OnAdd", o, NilObj, TRUE), k)
              IN  /\ t = Run(Call("OnAdd", o, NilObj, FALSE), k)
                  /\ Run(Call("OnAdd", o, NilObj, FALSE), s) = [t EXCEPT !.synced = s.synced]
                  /\ Panics(Program(Call("OnAdd", o, NilObj, TRUE)))
                        = Panics(Program(Call("OnAdd", o, NilObj, FALSE)))
        /\ \A ip \in IPs : Load(s.IPToSrc, ip) = Load(k.IPToSrc, ip)

\* A pod delivered with isInInitialList set is found by its address.
C14_Witness ==
    /\ LastIsPod("OnAdd") /\ last.flag /\ last.obj.PodIP # ""
    /\ Load(k.IPToSrc, last.obj.PodIP) = Found(last.obj)

\* The number of addresses of all the endpoints of a slice.
RECURSIVE NumAddresses(_)
NumAddresses(eps) ==
    IF eps = << >> THEN 0 ELSE Len(Head(eps)) + NumAddresses(Tail(eps))

\* C15: OnAdd of an EndpointSlice adds the number of addresses of all its
\* endpoints to SliceIPs and changes neither index.
C15_SliceIPsCountsAddresses ==
    [][(ncalls' # ncalls /\ last'.fn = "OnAdd" /\ last'.obj.kind = "EndpointSlice")
          => /\ k'.SliceIPs = k.SliceIPs + NumAddresses(last'.obj.Endpoints)
             /\ k'.IPToSrc = k.IPToSrc
             /\ k'.PodInfo = k.PodInfo]_vars

\* The goroutines whose call of fn on a pod has returned.
Returned(fn) ==
    {i \in Goroutines : g[i].st = "returned" /\ g[i].call.fn = fn /\ IsPod(g[i].call.obj)}

\* C16: when no handler call is in progress, Pods is the number of returned
\* OnAdd calls on pods minus the number of returned OnDelete calls on pods,
\* whatever other calls returned and however the calls interleaved.
C16_PodsIsEventCount ==
    (\A i \in Goroutines : g[i].st \in {"idle", "returned"})
        => k.Pods = Cardinality(Returned("OnAdd")) - Cardinality(Returned("OnDelete"))

\* Two OnAdd calls on the same pod returned: Pods is 2, one pod is indexed.
C16_Witness ==
    /\ AllReturned
    /\ Cardinality(Returned("OnAdd")) = 2
    /\ k.Pods = 2
    /\ Cardinality(k.PodInfo) = 1

\* C17: OnDelete(s) right after OnAdd(s) of an EndpointSlice s takes back what
\* the OnAdd added to Slices and SliceIPs.
C17_SliceDeleteUndoesAdd ==
    [][(/\ ncalls' # ncalls
        /\ last.fn = "OnAdd" /\ last.obj.kind = "EndpointSlice"
        /\ last'.fn = "OnDelete" /\ last'.obj = last.obj)
          => /\ k'.Slices = k.Slices - 1
             /\ k'.SliceIPs = k.SliceIPs - Len(last.obj.Endpoints)]_vars

\* C18: a call whose object (the new object, for OnUpdate) is not a pod, a node
\* or an EndpointSlice changes no index and no counter, and returns.
C18_UnexpectedShapeDropped ==
    [][(ncalls' # ncalls /\ last'.obj.kind \notin {"Pod", "Node", "EndpointSlice"})
          => (k' = k /\ ~panicked')]_vars

\* A DeletedFinalStateUnknown was delivered to OnDelete while pod "a" was
\* indexed: the pod is still counted and still indexed.
C18_Witness ==
    /\ last.fn = "OnDelete" /\ last.obj = TombstoneObj
    /\ k.Pods = 1
    /\ Load(k.PodInfo, "a.default").ok
    /\ ~panicked

\* C19: no handler call panics.
C19_NoEventIsFatal == ~panicked

\* C20: when each pod's events arrived in order, each index has at most as
\* many entries as there are pods added and not yet deleted.
C20_IndexBoundedByLivePods ==
    inOrder => /\ Cardinality(k.PodInfo) <= Cardinality(replica)
               /\ Cardinality(k.IPToSrc) <= Cardinality(replica)

\* ------------------------------------------------- the indexes, continued

\* C23: after Start(kd, config) the events of the informers are applied to kd,
\* the struct the watcher points to: a pod the informers added is found in kd
\* by its address and counted in kd.Pods.
C23_StartPopulatesGivenIndex ==
    (watcher.K8SData = "kd" /\ LastIsPod("OnAdd") /\ last.obj.PodIP # "")
        => /\ Load(kd.IPToSrc, last.obj.PodIP) = Found(last.obj)
           /\ kd.Pods >= 1

\* C24: OnDelete(A) with A's address x leaves the entry of x alone when it
\* holds another pod B.
C24_DeleteKeepsOtherPod ==
    [][(/\ ncalls' # ncalls
        /\ last'.fn = "OnDelete" /\ IsPod(last'.obj) /\ last'.obj.PodIP # ""
        /\ Load(k.IPToSrc, last'.obj.PodIP).ok
        /\ PodKey(Load(k.IPToSrc, last'.obj.PodIP).value) # PodKey(last'.obj))
          => Load(k'.IPToSrc, last'.obj.PodIP) = Load(k.IPToSrc, last'.obj.PodIP)]_vars

\* C25: IPToSrc never has an entry under the empty address.
C25_NoEmptyAddressKey == ~Load(k.IPToSrc, "").ok

\* Every OnUpdate of a pod that has been called follows a returned OnAdd of
\* that pod.
AddDeliveredFirst ==
    \A i \in Goroutines :
        (g[i].st # "idle" /\ g[i].call.fn = "OnUpdate" /\ IsPod(g[i].call.obj))
            => \E j \in Goroutines :
                  /\ g[j].st = "returned" /\ g[j].call.fn = "OnAdd" /\ IsPod(g[j].call.obj)
                  /\ PodKey(g[j].call.obj) = PodKey(g[i].call.obj)

\* C26: when OnAdd comes before every OnUpdate of a pod, then at every
\* instant, between the map writes of running handlers too, every pod stored
\* in IPToSrc has an entry in PodInfo under its name.
C26_AddressHitImpliesNameHit ==
    AddDeliveredFirst => \A e \in k.IPToSrc : Load(k.PodInfo, PodKey(e.value)).ok

\* An OnUpdate that followed the OnAdd of its pod has stored the pod under a
\* new address.
C26_Witness ==
    /\ AddDeliveredFirst
    /\ \E i \in Goroutines :
          /\ g[i].st = "returned" /\ g[i].call.fn = "OnUpdate" /\ IsPod(g[i].call.obj)
          /\ Load(k.IPToSrc, g[i].call.obj.PodIP) = Found(g[i].call.obj)
          /\ Load(k.PodInfo, PodKey(g[i].call.obj)).ok
          /\ Load(k.PodInfo, PodKey(g[i].call.obj)) # Found(g[i].call.obj)

\* ------------------------------------------------------------ K8S.init

\* The kubeconfig file init reads, as the environment has it.
InitConfigFile == os.files[IF os.KUBECONFIG # "" THEN os.KUBECONFIG ELSE "home"]

\* The kubeconfig's current context was loaded.
CurrentContextLoaded ==
    /\ InitConfigFile.state = "ok"
    /\ \E c \in InitConfigFile.Contexts : c.Name = InitConfigFile.CurrentContext /\ c.valid

\* C21: when init has returned without error and ByName is not empty, Default
\* is set.
C21_DefaultSetIfAnyCluster ==
    (run.pc = "done" /\ ~run.err /\ kr.ByName # {}) => kr.Default # "nil"

C27_SignsOnlyApproved ==
    \A r \in issued :
        /\ r.SignerName = SignerName
        /\ r.Certificate = "nil"
        /\ "Approved" \in r.Conditions
        /\ "Denied" \notin r.Conditions

\* ----------------------------------------------------------------- GcpInfo

\* C30: every GcpInfo call on a cluster returns, and returns the triple the
\* first call returned; for a Name gke_PROJECT_LOCATION_NAME the triple is
\* (PROJECT, LOCATION, NAME).
C30_GcpInfoStable ==
    /\ run.pc # "panic"
    /\ run.ret = run.first
    /\ (run.ret # << >> /\ HasPrefix(cluster.Name, "gke_") /\ Len(Split(cluster.Name, "_")) = 4)
          => run.ret = SubSeq(Split(cluster.Name, "_"), 2, 4)

\* ------------------------------------------------------------- FindCluster

\* The loaded clusters whose Name contains the clusterName of the call.
Named == {c \in kr.ByName : Contains(c.Name, run.clusterName)}

\* The loaded clusters whose location starts with the myRegion of the call.
Regional ==
    {c \in kr.ByName :
        run.myRegion = "" \/ (~k8sLocation(c).panic /\ HasPrefix(k8sLocation(c).ret, run.myRegion))}

\* C28: FindCluster returns, and its result is a cluster of the first of these
\* sets that is not empty: the clusters of the region with the name (for a
\* clusterName that is not empty), those with the name, those of the region,
\* all of them.
C28_FindClusterPreferences ==
    /\ run.pc # "panic"
    /\ run.pc = "done" =>
          IF run.clusterName # "" /\ Named \cap Regional # {}
          THEN run.cl # {} /\ run.cl \subseteq Named \cap Regional
          ELSE IF Named # {} THEN run.cl # {} /\ run.cl \subseteq Named
          ELSE IF Regional # {} THEN run.cl # {} /\ run.cl \subseteq Regional
          ELSE run.cl \subseteq kr.ByName /\ (kr.ByName # {} => run.cl # {})

\* C29: FindCluster returns a loaded cluster, nil only when none is loaded,
\* and autodetect makes the result Default.
C29_FindClusterNilOnlyIfEmpty ==
    /\ run.pc \in {"return", "done", "panic"} =>
          /\ run.pc # "panic"
          /\ run.cl \subseteq kr.ByName
          /\ run.cl = {} <=> kr.ByName = {}
    /\ run.pc = "done" =>
          kr.Default = IF run.cl = {} THEN "nil" ELSE (CHOOSE c \in run.cl : TRUE).Name

====
